---- MODULE Spec2Model ----
(***************************************************************************)
(* Model of src/electron/MCQHelper.ts: the MCQHelper class.                *)
(*                                                                         *)
(*  - captureMCQAndShowAnswer : one capture/analyse/display cycle, split   *)
(*    at its await points (settling delay, takeScreenshot, the HTTP post   *)
(*    inside analyzeMCQ and loadURL inside showAnswerOverlay).             *)
(*  - analyzeMCQ's reply parsing (trim, NO_MCQ test, first regex match,    *)
(*    toLowerCase) over replies represented as sequences of characters.    *)
(*  - showAnswerOverlay / hideOverlay / cleanup and the 3000 ms            *)
(*    auto-hide timers on the single overlayWindow field.                  *)
(*                                                                         *)
(* BrowserWindow.close() is modelled as destroying the window at once.     *)
(* loadURL on a window that was closed while loading is modelled as a      *)
(* rejected promise.                                                       *)
(***************************************************************************)
EXTENDS Integers, Sequences, FiniteSets, TLC

VARIABLES
    mainWin,        \* the main window: "visible", "hidden" or "none" (getMainWindow() = null)
    apiKey,         \* config.apiKey is set
    wins,           \* every overlay BrowserWindow ever created: id -> "none" | "created" | "shown" | "destroyed"
    winContent,     \* the text rendered in the overlay's <div class="answer">
    overlayWindow,  \* this.overlayWindow: 0 (null) or a window id
    timers,         \* pending auto-hide setTimeout callbacks, in arming order
    pc,             \* position of each captureMCQAndShowAnswer call
    wasVisible,     \* wasMainWindowVisible of each call
    answer,         \* the value analyzeMCQ returned to each call
    cause,          \* why analyzeMCQ produced that value
    displayed,      \* the argument each call passed to showAnswerOverlay
    myWin,          \* the window each showAnswerOverlay call created
    failed,         \* the call ended in its catch block (line 84)
    escapes,        \* functions out of which an exception (a rejection) has escaped
    lastCall,       \* the operation executed by the last step
    steps,          \* what each call has done so far, in order
    alone,          \* no other call was in flight when this call started
    reply,          \* parser specification: the reply text under test
    token           \* parser specification: what the extraction returned for it

vars == <<mainWin, apiKey, wins, winContent, overlayWindow, timers, pc, wasVisible,
          answer, cause, displayed, myWin, failed, escapes, lastCall, steps, alone, reply, token>>

----------------------------------------------------------------------------
(* Bounds *)

\* number of captureMCQAndShowAnswer calls (they may overlap)
MaxCycles == 2
\* longest free text generated for the parser
MaxLen == 3

Cycles == 1..MaxCycles
WinIds == 1..MaxCycles

NULL == "null"
NONE == "none"

----------------------------------------------------------------------------
(* Reply parsing: analyzeMCQ lines 151-160 *)

Whitespace == {" ", "\n"}

\* the character class of /[abcdABCD1234]/
AnswerChars == {"a", "b", "c", "d", "A", "B", "C", "D", "1", "2", "3", "4"}

NO_MCQ == <<"N", "O", "_", "M", "C", "Q">>

RECURSIVE TrimStart(_)
TrimStart(s) ==
    IF s # <<>> /\ Head(s) \in Whitespace THEN TrimStart(Tail(s)) ELSE s

RECURSIVE TrimEnd(_)
TrimEnd(s) ==
    IF s # <<>> /\ s[Len(s)] \in Whitespace
    THEN TrimEnd(SubSeq(s, 1, Len(s) - 1))
    ELSE s

\* String.prototype.trim
Trim(s) == TrimEnd(TrimStart(s))

\* String.prototype.toLowerCase on one character
ToLowerCase(ch) ==
    CASE ch = "A" -> "a"
      [] ch = "B" -> "b"
      [] ch = "C" -> "c"
      [] ch = "D" -> "d"
      [] ch = "N" -> "n"
      [] ch = "S" -> "s"
      [] ch = "W" -> "w"
      [] ch = "E" -> "e"
      [] ch = "R" -> "r"
      [] ch = "O" -> "o"
      [] ch = "M" -> "m"
      [] ch = "Q" -> "q"
      [] OTHER -> ch

\* String.prototype.toUpperCase on one character
ToUpperCase(ch) ==
    CASE ch = "a" -> "A"
      [] ch = "b" -> "B"
      [] ch = "c" -> "C"
      [] ch = "d" -> "D"
      [] OTHER -> ch

\* responseText.match(/[abcdABCD1234]/): the first character of the class
\* anywhere in the text, or NULL
RegexMatch(s) ==
    LET hits == {i \in 1..Len(s) : s[i] \in AnswerChars}
    IN  IF hits = {} THEN NULL
        ELSE s[CHOOSE i \in hits : \A j \in hits : i <= j]

\* Fault variant: the class matched only at the start of the text
ExtractAnswerAnchored(text) ==
    LET responseText == Trim(text)
    IN  IF responseText = NO_MCQ THEN NULL
        ELSE IF responseText # <<>> /\ Head(responseText) \in AnswerChars
             THEN ToLowerCase(Head(responseText))
             ELSE NULL

\* Fault variant: the match returned without toLowerCase()
ExtractAnswerNoLower(text) ==
    LET responseText == Trim(text)
        match == RegexMatch(responseText)
    IN  IF responseText = NO_MCQ THEN NULL
        ELSE IF match # NULL THEN match ELSE NULL

\* Fault variant: no test for the NO_MCQ sentinel
ExtractAnswerNoSentinel(text) ==
    LET responseText == Trim(text)
        match == RegexMatch(responseText)
    IN  IF match # NULL THEN ToLowerCase(match) ELSE NULL

\* lines 151-160: trim, NO_MCQ, first match, lower case
ExtractAnswer(text) ==
    LET responseText == Trim(text)
        match == RegexMatch(responseText)
    IN  IF responseText = NO_MCQ THEN NULL
        ELSE IF match # NULL THEN ToLowerCase(match) ELSE NULL

----------------------------------------------------------------------------
(* Completions of an async function body: a returned value, a thrown        *)
(* exception (a rejected promise), or a suspension at an await.             *)

Ret(v, why) == [kind |-> "return", value |-> v, cause |-> why]
Thrown(why) == [kind |-> "throw", value |-> NULL, cause |-> why]
Await == [kind |-> "await", value |-> NULL, cause |-> NONE]

----------------------------------------------------------------------------
(* hideOverlay, lines 378-384 *)

Alive == {"created", "shown"}

\* Fault variant: the reference is dropped but the window is not closed
hideOverlayLeak(w, ow) ==
    [wins |-> w, overlayWindow |-> 0]

\* Fault variant: the window is closed but the reference is kept
hideOverlayKeepRef(w, ow) ==
    IF ow # 0 /\ w[ow] \in Alive
    THEN [wins |-> [w EXCEPT ![ow] = "destroyed"], overlayWindow |-> ow]
    ELSE [wins |-> w, overlayWindow |-> ow]

\* if (this.overlayWindow && !this.overlayWindow.isDestroyed()) { close(); = null }
hideOverlay(w, ow) ==
    IF ow # 0 /\ w[ow] \in Alive
    THEN [wins |-> [w EXCEPT ![ow] = "destroyed"], overlayWindow |-> 0]
    ELSE [wins |-> w, overlayWindow |-> ow]

\* cleanup, lines 400-402
cleanup(w, ow) == hideOverlay(w, ow)

----------------------------------------------------------------------------
(* analyzeMCQ, lines 92-166 *)

\* the replies the inference service returns in the cycle specification
SampleReplies ==
    { <<"b">>,
      <<" ", "B", "\n">>,
      NO_MCQ,
      <<"?">>,
      <<"2">>,
      <<"A", "N", "S", "W", "E", "R", ":", " ", "B">> }

Responses ==
    [kind : {"error"}, candidates : {"absent"}, text : {<<>>}]
    \cup [kind : {"ok"}, candidates : {"absent", "empty", "malformed"}, text : {<<>>}]
    \cup [kind : {"ok"}, candidates : {"present"}, text : SampleReplies]

\* Fault variant: no test of config.apiKey
AnalyzeBeginNoKeyTest(key, readOk) ==
    IF ~readOk THEN Thrown("readerr") ELSE Await

\* lines 94-103: up to the await of axios.post
AnalyzeBegin(key, readOk) ==
    IF ~key THEN Ret(NULL, "nokey")
    ELSE IF ~readOk THEN Thrown("readerr")
    ELSE Await

\* Fault variant: a failed request is sent again
AnalyzeEndRetry(resp) ==
    IF resp.kind = "error" THEN Await
    ELSE IF resp.candidates \in {"absent", "empty"} THEN Ret(NULL, "empty")
    ELSE IF resp.candidates = "malformed" THEN Thrown("malformed")
    ELSE LET t == ExtractAnswer(resp.text)
         IN  Ret(t, IF t # NULL THEN "token"
                    ELSE IF Trim(resp.text) = NO_MCQ THEN "nomcq" ELSE "noparse")

\* lines 144-160: from the settled axios.post on
AnalyzeEnd(resp) ==
    IF resp.kind = "error" THEN Thrown("neterr")
    ELSE IF resp.candidates \in {"absent", "empty"} THEN Ret(NULL, "empty")
    ELSE IF resp.candidates = "malformed" THEN Thrown("malformed")
    ELSE LET t == ExtractAnswer(resp.text)
         IN  Ret(t, IF t # NULL THEN "token"
                    ELSE IF Trim(resp.text) = NO_MCQ THEN "nomcq" ELSE "noparse")

\* Fault variant: analyzeMCQ without its try/catch
AnalyzeCatchRethrow(comp) == comp

\* lines 162-165: catch (error) { ...; return null }
AnalyzeCatch(comp) ==
    IF comp.kind = "throw" THEN Ret(NULL, comp.cause) ELSE comp

----------------------------------------------------------------------------
(* showAnswerOverlay, lines 171-373 *)

NewWin(w) == CHOOSE i \in WinIds : w[i] = NONE /\ \A j \in WinIds : w[j] = NONE => i <= j

\* Fault variant: showAnswerOverlay without the hideOverlay() of line 174
ShowBeginNoHide(w, ow, content, a) ==
    LET id == NewWin(w)
    IN  [wins |-> [w EXCEPT ![id] = "created"],
         overlayWindow |-> id,
         winContent |-> [content EXCEPT ![id] = ToUpperCase(a)]]

\* lines 174-351: hideOverlay(), new BrowserWindow, the HTML with the answer
\* in upper case, up to the await of loadURL
ShowBegin(w, ow, content, a) ==
    LET h == hideOverlay(w, ow)
        id == NewWin(h.wins)
    IN  [wins |-> [h.wins EXCEPT ![id] = "created"],
         overlayWindow |-> id,
         winContent |-> [content EXCEPT ![id] = ToUpperCase(a)]]

\* lines 351-368: the settled loadURL, showInactive() on this.overlayWindow,
\* setTimeout(hideOverlay, 3000)
ShowEnd(loadOk, w, ow, tm) ==
    IF ~loadOk THEN [kind |-> "throw", wins |-> w, timers |-> tm]
    ELSE IF ow = 0 \/ w[ow] \notin Alive THEN [kind |-> "throw", wins |-> w, timers |-> tm]
    ELSE [kind |-> "return", wins |-> [w EXCEPT ![ow] = "shown"], timers |-> Append(tm, ow)]

\* Fault variant: showAnswerOverlay without its try/catch
ShowCatchRethrow(comp) == comp

\* lines 370-372: catch (error) { console.error }
ShowCatch(comp) == [comp EXCEPT !.kind = "return"]

----------------------------------------------------------------------------
(* captureMCQAndShowAnswer, lines 40-87 *)

\* Fault variant: the sentinel "N" displayed when there is no answer
DisplayForSentinel(ans) == IF ans # NULL THEN ans ELSE "N"

\* lines 71-77: if (answer) showAnswerOverlay(answer) else only a log line
DisplayFor(ans) == IF ans # NULL THEN ans ELSE NONE

\* lines 79-82: mainWindow.show() if it was visible before
RestoreMain(main, wasVis) ==
    IF wasVis /\ main # NONE THEN "visible" ELSE main

\* Fault variant: the catch block displaying the sentinel "N"
OnErrorSentinel(d) == "N"

\* lines 84-86: the catch block only logs; what the call has displayed stays
OnError(d) == d

\* Fault variant: the overlay torn down and the delay started before the
\* main window is hidden
StartStepsLateHide(main) ==
    <<"hideOverlay", "delay">> \o (IF main = "visible" THEN <<"hideMain">> ELSE <<>>)

\* lines 44-58 in order: mainWindow.hide() if it is visible, hideOverlay(),
\* the 500 ms delay
StartSteps(main) ==
    (IF main = "visible" THEN <<"hideMain">> ELSE <<>>) \o <<"hideOverlay", "delay">>

\* what analyzeMCQ has done when it reaches `comp` from its start: the file
\* read of line 103 and the request of line 133
BeginSteps(comp) ==
    <<"analyzeMCQ">> \o
    (IF comp.kind = "await" THEN <<"readFile", "post">>
     ELSE IF comp.cause = "readerr" THEN <<"readFile">>
     ELSE <<>>)

\* lines 79-82 at the end of a completed body: mainWindow.show()
RestoreSteps(kind, main, wasVis) ==
    IF kind = "return" /\ wasVis /\ main # NONE THEN <<"showMain">> ELSE <<>>

\* Fault variant: captureMCQAndShowAnswer without its try/catch
CycleCatchRethrow(kind) == kind

\* lines 41, 84-86: the try/catch around the whole body
CycleCatch(kind) == "return"

----------------------------------------------------------------------------
(* The state after construction (lines 30-35): no overlay, no call running. *)

Init ==
    /\ mainWin \in {"visible", "hidden", NONE}
    /\ apiKey \in BOOLEAN
    /\ wins = [i \in WinIds |-> NONE]
    /\ winContent = [i \in WinIds |-> NONE]
    /\ overlayWindow = 0
    /\ timers = <<>>
    /\ pc = [c \in Cycles |-> "idle"]
    /\ wasVisible = [c \in Cycles |-> FALSE]
    /\ answer = [c \in Cycles |-> NONE]
    /\ cause = [c \in Cycles |-> NONE]
    /\ displayed = [c \in Cycles |-> NONE]
    /\ myWin = [c \in Cycles |-> 0]
    /\ failed = [c \in Cycles |-> FALSE]
    /\ escapes = {}
    /\ lastCall = [op |-> "new", arg |-> 0, closed |-> 0]
    /\ steps = [c \in Cycles |-> <<>>]
    /\ alone = [c \in Cycles |-> TRUE]
    /\ reply = <<>>
    /\ token = NONE

\* the window a hideOverlay call closes (0: none)
Closed(ow, h) == IF h.overlayWindow = 0 /\ ow # 0 THEN ow ELSE 0

\* The end of a call's try body: `kind` is how the body completed, `esc` the
\* callees that let an exception through.  A completed body has run lines
\* 79-82; a thrown one runs the catch block of lines 84-86.
Finish(c, kind, esc, ev) ==
    /\ steps' = [steps EXCEPT ![c] = @ \o ev \o RestoreSteps(kind, mainWin, wasVisible[c])]
    /\ pc' = [pc EXCEPT ![c] = IF CycleCatch(kind) = "throw" THEN "rejected" ELSE "done"]
    /\ failed' = [failed EXCEPT ![c] = (kind = "throw")]
    /\ mainWin' = IF kind = "return" THEN RestoreMain(mainWin, wasVisible[c]) ELSE mainWin
    /\ displayed' = [displayed EXCEPT ![c] = IF kind = "throw" THEN OnError(@) ELSE @]
    /\ escapes' = escapes \cup esc
                    \cup (IF CycleCatch(kind) = "throw" THEN {"captureMCQAndShowAnswer"} ELSE {})

\* lines 44-58: hide the main window, hideOverlay(), start the 500 ms delay
Start(c) ==
    /\ pc[c] = "idle"
    /\ \A d \in Cycles : d < c => pc[d] # "idle"
    /\ LET h == hideOverlay(wins, overlayWindow)
       IN  /\ wasVisible' = [wasVisible EXCEPT ![c] = (mainWin = "visible")]
           /\ mainWin' = IF mainWin = "visible" THEN "hidden" ELSE mainWin
           /\ wins' = h.wins
           /\ overlayWindow' = h.overlayWindow
           /\ lastCall' = [op |-> "Start", arg |-> c, closed |-> Closed(overlayWindow, h)]
    /\ steps' = [steps EXCEPT ![c] = @ \o StartSteps(mainWin)]
    /\ pc' = [pc EXCEPT ![c] = "settle"]
    /\ alone' = [alone EXCEPT ![c] = \A e \in Cycles \ {c} : pc[e] \in {"idle", "done"}]
    /\ UNCHANGED <<apiKey, winContent, timers, answer, cause, displayed, myWin, failed,
                   escapes, reply, token>>

\* lines 58-64: the delay has elapsed, takeScreenshot is invoked.  The
\* delays are all 500 ms, so they elapse in the order the calls started.
Settled(c) ==
    /\ pc[c] = "settle"
    /\ \A d \in Cycles : d < c => pc[d] # "settle"
    /\ pc' = [pc EXCEPT ![c] = "screenshot"]
    /\ steps' = [steps EXCEPT ![c] = Append(@, "takeScreenshot")]
    /\ lastCall' = [op |-> "takeScreenshot", arg |-> c, closed |-> 0]
    /\ UNCHANGED <<alone, mainWin, apiKey, wins, winContent, overlayWindow, timers, wasVisible,
                   answer, cause, displayed, myWin, failed, escapes, reply, token>>

\* lines 69-82 from the value of `await this.analyzeMCQ(...)` on: either the
\* call of showAnswerOverlay up to its await of loadURL, or the end of the body
AfterAnalyze(c, comp, op, ev) ==
    IF comp.kind = "throw"
    THEN /\ Finish(c, "throw", {"analyzeMCQ"}, ev)
         /\ lastCall' = [op |-> op, arg |-> c, closed |-> 0]
         /\ answer' = answer
         /\ cause' = [cause EXCEPT ![c] = comp.cause]
         /\ UNCHANGED <<wins, winContent, overlayWindow, myWin>>
    ELSE /\ answer' = [answer EXCEPT ![c] = comp.value]
         /\ cause' = [cause EXCEPT ![c] = comp.cause]
         /\ IF DisplayFor(comp.value) # NONE
            THEN LET s == ShowBegin(wins, overlayWindow, winContent, DisplayFor(comp.value))
                 IN  /\ wins' = s.wins
                     /\ overlayWindow' = s.overlayWindow
                     /\ winContent' = s.winContent
                     /\ myWin' = [myWin EXCEPT ![c] = s.overlayWindow]
                     /\ displayed' = [displayed EXCEPT ![c] = DisplayFor(comp.value)]
                     /\ pc' = [pc EXCEPT ![c] = "load"]
                     /\ steps' = [steps EXCEPT ![c] = @ \o ev \o <<"showAnswerOverlay">>]
                     /\ lastCall' = [op |-> op, arg |-> c,
                                     closed |-> Closed(overlayWindow,
                                                       hideOverlay(wins, overlayWindow))]
                     /\ UNCHANGED <<mainWin, failed, escapes>>
            ELSE /\ Finish(c, "return", {}, ev)
                 /\ lastCall' = [op |-> op, arg |-> c, closed |-> 0]
                 /\ UNCHANGED <<wins, winContent, overlayWindow, myWin>>

\* lines 61-69: takeScreenshot settles; on success analyzeMCQ runs up to its
\* await of axios.post (or to its early return)
Screenshot(c) ==
    /\ pc[c] = "screenshot"
    /\ \E shotOk \in BOOLEAN :
         IF ~shotOk
         THEN /\ Finish(c, "throw", {}, <<>>)
              /\ cause' = [cause EXCEPT ![c] = "shoterr"]
              /\ lastCall' = [op |-> "Screenshot", arg |-> c, closed |-> 0]
              /\ UNCHANGED <<wins, winContent, overlayWindow, myWin, answer>>
         ELSE \E readOk \in BOOLEAN :
                LET comp == AnalyzeCatch(AnalyzeBegin(apiKey, readOk))
                IN  IF comp.kind = "await"
                    THEN /\ pc' = [pc EXCEPT ![c] = "request"]
                         /\ steps' = [steps EXCEPT ![c] = @ \o BeginSteps(comp)]
                         /\ lastCall' = [op |-> "Screenshot", arg |-> c, closed |-> 0]
                         /\ UNCHANGED <<mainWin, wins, winContent, overlayWindow, answer,
                                        cause, displayed, myWin, failed, escapes>>
                    ELSE AfterAnalyze(c, comp, "Screenshot", BeginSteps(comp))
    /\ UNCHANGED <<alone, apiKey, timers, wasVisible, reply, token>>

\* lines 133-160: axios.post settles and analyzeMCQ runs to its end
Response(c) ==
    /\ pc[c] = "request"
    /\ \E resp \in Responses :
         LET comp == AnalyzeCatch(AnalyzeEnd(resp))
         IN  IF comp.kind = "await"
             THEN \* analyzeMCQ has issued another request and awaits it
                  /\ steps' = [steps EXCEPT ![c] = Append(@, "post")]
                  /\ lastCall' = [op |-> "Response", arg |-> c, closed |-> 0]
                  /\ UNCHANGED <<mainWin, wins, winContent, overlayWindow, pc, answer,
                                 cause, displayed, myWin, failed, escapes>>
             ELSE AfterAnalyze(c, comp, "Response", <<>>)
    /\ UNCHANGED <<alone, apiKey, timers, wasVisible, reply, token>>

\* how loadURL can settle for the window a call created
LoadOutcomes(c) == IF wins[myWin[c]] \in Alive THEN {TRUE, FALSE} ELSE {FALSE}

\* lines 351-372 and 79-82: loadURL settles, the overlay is shown and its
\* timer armed (or the catch block runs), then the call's body ends
Loaded(c) ==
    /\ pc[c] = "load"
    /\ lastCall' = [op |-> "Loaded", arg |-> c, closed |-> 0]
    /\ \E loadOk \in LoadOutcomes(c) :
         LET e == ShowCatch(ShowEnd(loadOk, wins, overlayWindow, timers))
         IN  /\ wins' = e.wins
             /\ timers' = e.timers
             /\ Finish(c, e.kind, IF e.kind = "throw" THEN {"showAnswerOverlay"} ELSE {},
                       <<"showReturned">>)
    /\ UNCHANGED <<alone, apiKey, winContent, overlayWindow, wasVisible, answer, cause, myWin,
                   reply, token>>

\* lines 366-368: the oldest pending auto-hide timer fires (all have the same delay)
TimerFire ==
    /\ timers # <<>>
    /\ LET h == hideOverlay(wins, overlayWindow)
       IN  /\ wins' = h.wins
           /\ overlayWindow' = h.overlayWindow
           /\ lastCall' = [op |-> "timer", arg |-> Head(timers),
                           closed |-> Closed(overlayWindow, h)]
    /\ timers' = Tail(timers)
    /\ UNCHANGED <<alone, mainWin, apiKey, winContent, pc, wasVisible, answer, cause, displayed,
                   myWin, failed, escapes, steps, reply, token>>

\* the host calls the public hideOverlay()
CallHideOverlay ==
    /\ LET h == hideOverlay(wins, overlayWindow)
       IN  /\ wins' = h.wins
           /\ overlayWindow' = h.overlayWindow
           /\ lastCall' = [op |-> "hideOverlay", arg |-> 0, closed |-> Closed(overlayWindow, h)]
    /\ UNCHANGED <<alone, mainWin, apiKey, winContent, timers, pc, wasVisible, answer, cause,
                   displayed, myWin, failed, escapes, steps, reply, token>>

\* the host calls the public cleanup()
CallCleanup ==
    /\ LET h == cleanup(wins, overlayWindow)
       IN  /\ wins' = h.wins
           /\ overlayWindow' = h.overlayWindow
           /\ lastCall' = [op |-> "cleanup", arg |-> 0, closed |-> Closed(overlayWindow, h)]
    /\ UNCHANGED <<alone, mainWin, apiKey, winContent, timers, pc, wasVisible, answer, cause,
                   displayed, myWin, failed, escapes, steps, reply, token>>

Next ==
    \/ \E c \in Cycles : Start(c)
    \/ \E c \in Cycles : Settled(c)
    \/ \E c \in Cycles : Screenshot(c)
    \/ \E c \in Cycles : Response(c)
    \/ \E c \in Cycles : Loaded(c)
    \/ TimerFire
    \/ CallHideOverlay
    \/ CallCleanup

Spec == Init /\ [][Next]_vars

----------------------------------------------------------------------------
(* The parser specification: the extraction of lines 151-160 applied to     *)
(* reply texts drawn from bounded sets.                                     *)

\* characters of generated free text
FreeChars == {"b", "A", "2", "x", ":", " ", "\n"}

RECURSIVE TextsOfLen(_)
TextsOfLen(n) ==
    IF n = 0 THEN {<<>>}
    ELSE {Append(t, ch) : t \in TextsOfLen(n - 1), ch \in FreeChars}

\* every text over FreeChars of at most MaxLen characters
FreeTexts == UNION {TextsOfLen(n) : n \in 0..MaxLen}

AnswerKeyword == <<"A", "N", "S", "W", "E", "R", ":">>

\* the line "ANSWER: <x>"
AnswerLine(x) == AnswerKeyword \o <<" ", x>>

\* the reply of the scenario: "What is 2+2?\nA) 3\nB) 4\nC) 5\nD) 6\n...\nANSWER: B"
ScenarioReply ==
    <<"W", "h", "a", "t", " ", "i", "s", " ", "2", "+", "2", "?", "\n",
      "A", ")", " ", "3", "\n", "B", ")", " ", "4", "\n", "C", ")", " ", "5", "\n",
      "D", ")", " ", "6", "\n", ".", ".", ".", "\n">> \o AnswerLine("B")

\* replies that end in a well-formed answer line after arbitrary content
AnswerReplies ==
    {(IF pre = <<>> THEN <<>> ELSE pre \o <<"\n">>) \o AnswerLine(x) \o post :
        pre \in FreeTexts, x \in AnswerChars, post \in {<<>>, <<"\n">>}}

\* the sentinel reply, bare and surrounded by white space
SentinelReplies == {NO_MCQ, <<" ">> \o NO_MCQ \o <<"\n">>, NO_MCQ \o <<"\n">>}

Replies == FreeTexts \cup AnswerReplies \cup SentinelReplies \cup {ScenarioReply}

ParseInit ==
    /\ mainWin = "visible"
    /\ apiKey = TRUE
    /\ wins = [i \in WinIds |-> NONE]
    /\ winContent = [i \in WinIds |-> NONE]
    /\ overlayWindow = 0
    /\ timers = <<>>
    /\ pc = [c \in Cycles |-> "idle"]
    /\ wasVisible = [c \in Cycles |-> FALSE]
    /\ answer = [c \in Cycles |-> NONE]
    /\ cause = [c \in Cycles |-> NONE]
    /\ displayed = [c \in Cycles |-> NONE]
    /\ myWin = [c \in Cycles |-> 0]
    /\ failed = [c \in Cycles |-> FALSE]
    /\ escapes = {}
    /\ lastCall = [op |-> "new", arg |-> 0, closed |-> 0]
    /\ steps = [c \in Cycles |-> <<>>]
    /\ alone = [c \in Cycles |-> TRUE]
    /\ reply \in Replies
    /\ token = NONE

\* lines 151-160 applied to the reply
Extract ==
    /\ token = NONE
    /\ token' = ExtractAnswer(reply)
    /\ UNCHANGED <<reply, mainWin, apiKey, wins, winContent, overlayWindow, timers, pc,
                   wasVisible, answer, cause, displayed, myWin, failed, escapes, lastCall,
                   steps, alone>>

ParseNext == Extract

ParseSpec == ParseInit /\ [][ParseNext]_vars

----------------------------------------------------------------------------
(* Properties *)

AliveWins == {i \in WinIds : wins[i] \in Alive}

Tokens == {"a", "b", "c", "d", "1", "2", "3", "4"}

\* C1: in every reachable state at most one overlay window that has not been
\* destroyed exists, and it is the one this.overlayWindow refers to.
C1_Singleton ==
    /\ Cardinality(AliveWins) <= 1
    /\ \A i \in AliveWins : overlayWindow = i

\* C1 witness: a second overlay has replaced a first one that a call had shown.
C1_Witness ==
    \E i, j \in WinIds : i # j /\ wins[i] = "destroyed" /\ wins[j] = "shown"

C4_NoFailureEscapes ==
    /\ escapes = {}
    /\ \A c \in Cycles :
        /\ pc[c] # "rejected"
        /\ cause[c] \in {"nokey", "readerr", "neterr", "empty", "malformed"} =>
              answer[c] = NULL

\* C4 witness: one call completed after its request failed while another
\* completed after its loadURL was rejected.
C4_Witness ==
    \E c, d \in Cycles :
        /\ pc[c] = "done" /\ cause[c] = "neterr"
        /\ pc[d] = "done" /\ myWin[d] # 0 /\ wins[myWin[d]] # "shown" /\ timers = <<>>
        /\ \A i \in WinIds : wins[i] # "shown"

\* C5: once every call that was started has ended, the main window is visible
\* again if one of them had hidden it.
C5_MainRestored ==
    (/\ \A c \in Cycles : pc[c] \in {"idle", "done"}
     /\ \E c \in Cycles : pc[c] = "done" /\ wasVisible[c])
    => mainWin = "visible"

\* C6: an auto-hide timer that fires closes no overlay other than the one it
\* was armed for: a stale timer leaves the newer overlay in place.
C6_StaleTimerNoOp ==
    lastCall.op = "timer" => lastCall.closed \in {0, lastCall.arg}

\* C7: when no call is in progress and no auto-hide timer is pending, no
\* overlay window is left: every overlay created has been destroyed.
C7_ReturnsToAbsent ==
    (/\ \A c \in Cycles : pc[c] \in {"idle", "done"}
     /\ timers = <<>>)
    => AliveWins = {}

HideOps == {"hideOverlay", "cleanup"}

\* C8: a step of hideOverlay or of cleanup leaves no overlay and a null
\* reference; with no overlay before, it changes nothing; with one, it
\* destroys that one and touches no other window and no timer, so a second
\* call in succession changes nothing.
C8_HideIdempotent ==
    [][lastCall'.op \in HideOps /\ lastCall' # lastCall =>
          /\ overlayWindow' = 0
          /\ \A i \in WinIds : wins'[i] \notin Alive
          /\ AliveWins = {} => wins' = wins /\ overlayWindow' = overlayWindow
          /\ \A i \in WinIds :
                wins'[i] = (IF i \in AliveWins THEN "destroyed" ELSE wins[i])
          /\ lastCall.op \in HideOps => wins' = wins /\ overlayWindow' = overlayWindow
          /\ UNCHANGED <<timers, winContent, mainWin, pc>>]_vars

\* C8 witness: cleanup has destroyed an existing overlay.
C8_Witness ==
    lastCall.op = "cleanup" /\ lastCall.closed # 0 /\ wins[lastCall.closed] = "destroyed"

\* the text has the line "ANSWER: <x>"
HasAnswerLine(s, x) ==
    \E i \in 1..Len(s) :
        /\ i + 8 <= Len(s)
        /\ SubSeq(s, i, i + 8) = AnswerLine(x)
        /\ (i = 1 \/ s[i - 1] = "\n")
        /\ (i + 8 = Len(s) \/ s[i + 9] = "\n")

\* the text has the keyword "ANSWER:" somewhere
HasAnswerKeyword(s) ==
    \E i \in 1..Len(s) : i + 6 <= Len(s) /\ SubSeq(s, i, i + 6) = AnswerKeyword

\* C9: for a reply with a well-formed line "ANSWER: <x>", the extracted token
\* is <x> in lower case.
C9_AnswerLineToken ==
    \A x \in AnswerChars :
        token # NONE /\ HasAnswerLine(reply, x) => token = ToLowerCase(x)

FirstAnswerChar(s) ==
    IF \A i \in 1..Len(s) : s[i] \notin AnswerChars THEN 0
    ELSE CHOOSE i \in 1..Len(s) :
            s[i] \in AnswerChars /\ \A j \in 1..(i - 1) : s[j] \notin AnswerChars

C11_TokenAlphabet ==
    \A c \in Cycles :
        /\ answer[c] \in Tokens \cup {NULL, NONE}
        /\ displayed[c] \in Tokens \cup {NONE}
        /\ displayed[c] # NONE => displayed[c] = answer[c]

\* C11 witness: a token parsed from a reply has been passed to showAnswerOverlay.
C11_Witness ==
    \E c \in Cycles :
        cause[c] = "token" /\ answer[c] = "b" /\ displayed[c] = "b" /\ myWin[c] # 0


\* position of each step in the order of lines 44-82
StepRank(e) ==
    CASE e = "hideMain" -> 1
      [] e = "hideOverlay" -> 2
      [] e = "delay" -> 3
      [] e = "takeScreenshot" -> 4
      [] e = "analyzeMCQ" -> 5
      [] e = "readFile" -> 6
      [] e = "post" -> 7
      [] e = "showAnswerOverlay" -> 8
      [] e = "showReturned" -> 9
      [] e = "showMain" -> 10
      [] OTHER -> 0

Did(c, e) == \E i \in 1..Len(steps[c]) : steps[c][i] = e

Count(c, e) == Cardinality({i \in 1..Len(steps[c]) : steps[c][i] = e})

InFlight(c) == pc[c] \in {"settle", "screenshot", "request", "load"}

FullCycle ==
    <<"hideMain", "hideOverlay", "delay", "takeScreenshot", "analyzeMCQ", "readFile",
      "post", "showAnswerOverlay", "showReturned", "showMain">>

\* C12: the steps of one call occur in the order main window hidden, overlay
\* destroyed, delay, screenshot, analysis, overlay display, main window shown;
\* the screenshot comes after the hide and the teardown, and the main window
\* that a call has hidden stays hidden until its overlay display has returned.
C12_StepOrder ==
    \A c \in Cycles :
        /\ \A i, j \in 1..Len(steps[c]) :
              i < j => StepRank(steps[c][i]) < StepRank(steps[c][j])
        /\ \A i \in 1..Len(steps[c]) : StepRank(steps[c][i]) > 0
        /\ Did(c, "takeScreenshot") =>
              /\ Did(c, "hideOverlay") /\ Did(c, "delay")
              /\ wasVisible[c] <=> Did(c, "hideMain")
        /\ Did(c, "showMain") =>
              /\ wasVisible[c] /\ pc[c] = "done"
              /\ displayed[c] # NONE => Did(c, "showReturned")
        /\ InFlight(c) /\ wasVisible[c] => mainWin = "hidden"
        /\ pc[c] = "done" /\ ~failed[c] /\ wasVisible[c] /\ displayed[c] # NONE =>
              steps[c] = FullCycle

\* C12 witness: a call has run through every step, overlay shown, main window
\* shown again.
C12_Witness ==
    \E c \in Cycles :
        steps[c] = FullCycle /\ mainWin = "visible" /\ wins[myWin[c]] = "shown"

\* C13: without an API key no call reads the screenshot file or sends a
\* request, analyzeMCQ yields no token, and no exception escapes.
C13_NoKeyNoRequest ==
    ~apiKey =>
        /\ escapes = {}
        /\ \A c \in Cycles :
              /\ ~Did(c, "post") /\ ~Did(c, "readFile")
              /\ pc[c] \notin {"request", "load", "rejected"}
              /\ answer[c] \in {NONE, NULL}
              /\ Did(c, "analyzeMCQ") =>
                    pc[c] = "done" /\ ~failed[c] /\ answer[c] = NULL /\ cause[c] = "nokey"

\* C13 witness: a call has completed without an API key.
C13_Witness ==
    ~apiKey /\ \E c \in Cycles : pc[c] = "done" /\ cause[c] = "nokey" /\ Did(c, "analyzeMCQ")

\* C14: a call sends at most one request, takes at most one screenshot and
\* displays at most one overlay; after a failed request it ends without
\* another one.
C14_AtMostOnce ==
    \A c \in Cycles :
        /\ Count(c, "post") <= 1
        /\ Count(c, "takeScreenshot") <= 1
        /\ Count(c, "showAnswerOverlay") <= 1
        /\ cause[c] = "neterr" => pc[c] = "done" /\ Count(c, "post") = 1
        /\ Cardinality({i \in WinIds : wins[i] # NONE}) <=
              Cardinality({d \in Cycles : Did(d, "showAnswerOverlay")})

\* C14 witness: a call has ended after its single request failed.
C14_Witness ==
    \E c \in Cycles :
        pc[c] = "done" /\ cause[c] = "neterr" /\ Count(c, "post") = 1


\* C15: a reply that is NO_MCQ up to surrounding white space yields no token.
C15_SentinelNoToken ==
    token # NONE /\ reply \in SentinelReplies => token = NULL

\* C15 witness: the sentinel between white space has been parsed to null.
C15_Witness ==
    reply = <<" ">> \o NO_MCQ \o <<"\n">> /\ token = NULL

\* the overlay window created last (0: none yet)
LatestWin ==
    IF \A i \in WinIds : wins[i] = NONE THEN 0
    ELSE CHOOSE i \in WinIds : wins[i] # NONE /\ \A j \in WinIds : wins[j] # NONE => j <= i

\* C16: an overlay that is visible is the one the most recent
\* showAnswerOverlay call created, and its text is that call's argument (in
\* upper case, as line 345 renders it); the window of an earlier call is
\* never the one left visible.
C16_ContentReplaced ==
    \A i \in WinIds :
        wins[i] = "shown" =>
            /\ i = LatestWin
            /\ \E c \in Cycles :
                  /\ myWin[c] = i
                  /\ displayed[c] # NONE
                  /\ winContent[i] = ToUpperCase(displayed[c])

\* C16 witness: the overlay of a second call, with another text, has replaced
\* the overlay of a first.
C16_Witness ==
    \E i, j \in WinIds :
        /\ i < j /\ wins[i] = "destroyed" /\ wins[j] = "shown"
        /\ winContent[i] # winContent[j]

\* the capture is clean: main window not visible, no overlay window
CleanScreen == mainWin # "visible" /\ AliveWins = {}

\* C17 (as stated): whenever a call invokes takeScreenshot the main window is
\* not visible and no overlay exists, whether or not calls overlap.
C17_CleanCapture ==
    lastCall.op = "takeScreenshot" => CleanScreen

\* C17 (amended): whenever a call that was started while no other call was in
\* flight invokes takeScreenshot, the main window is not visible and no
\* overlay exists.
C17_CleanCaptureSequential ==
    lastCall.op = "takeScreenshot" /\ alone[lastCall.arg] => CleanScreen

\* C17 witness: a second call, started after the first had ended, invokes
\* takeScreenshot after it has hidden the main window and torn down the
\* first call's overlay.
C17_Witness ==
    /\ lastCall.op = "takeScreenshot" /\ lastCall.arg = 2 /\ alone[2]
    /\ wasVisible[2] /\ myWin[1] # 0 /\ wins[myWin[1]] = "destroyed"
    /\ CleanScreen

\* the windows an auto-hide timer is pending for
Armed == {timers[i] : i \in 1..Len(timers)}

\* an auto-hide timer is armed only for an overlay that has been loaded and
\* shown, and once for each
ArmedOncePerShow ==
    /\ \A i \in Armed : wins[i] \in {"shown", "destroyed"}
    /\ \A i, j \in 1..Len(timers) : i # j => timers[i] # timers[j]
    /\ \A i \in WinIds : wins[i] = "shown" => i \in Armed

\* C18: an auto-hide timer is armed only after the overlay has been loaded
\* and shown, once for each overlay shown; and whenever an overlay window
\* exists and no showAnswerOverlay call is in progress, a timer is pending.
C18_TimerCoverage ==
    /\ ArmedOncePerShow
    /\ (AliveWins # {} /\ \A c \in Cycles : pc[c] # "load") => timers # <<>>

====
